---- MODULE Spec2Model ----
(***************************************************************************)
(* Model of xlint.js: the pre-commit hook that asks git for the staged     *)
(* files, keeps the source files among them and runs ESLint on those.      *)
(*                                                                         *)
(* A JavaScript string is modelled as a sequence of one-character strings, *)
(* so that split() and the extension pattern work on characters.           *)
(***************************************************************************)
EXTENDS Integers, Sequences, FiniteSets, TLC

\* ------------------------------------------------------------------ bounds
\* longest raw git output enumerated character by character
MaxLen == 3
\* most paths in a structured listing
MaxPaths == 2
\* largest value of one finding count
MaxCount == 1
\* most invocations of the entry point in one process
MaxRuns == 2

\* ------------------------------------------------------- program constants
GENERAL_ERROR == 1
COMMAND_CANNOT_EXECUTE == 126

ignored_files ==
    { <<"s", "c", "r", "i", "p", "t", "s", "/", "p", "r", "e", "-",
        "c", "o", "m", "m", "i", "t", ".", "j", "s">> }

\* ------------------------------------------------------------ JS values
\* a value that is null, undefined, a string (text) or an Error object
Null == [kind |-> "null", text |-> <<>>]
Undefined == [kind |-> "undefined", text |-> <<>>]
Str(s) == [kind |-> "string", text |-> s]
ErrorObject == [kind |-> "Error", text |-> <<>>]
UNKNOWN_ERROR == Str(<<"U", "N", "K", "N", "O", "W", "N", "_", "E", "R", "R", "O", "R">>)

\* JavaScript truthiness of such a value: null, undefined and '' are falsy
Truthy(v) == \/ v.kind = "Error"
             \/ v.kind = "string" /\ Len(v.text) > 0

\* the objects os_run builds: absent fields read as undefined
Obj(succ, err, out, serr) ==
    [success |-> succ, error |-> err, stdout |-> out, stderr |-> serr]
NoObj == Obj(FALSE, Undefined, Undefined, Undefined)

\* what a promise settles with / what the entry point throws or returns
Num(n) == [type |-> "number", num |-> n, obj |-> NoObj]
ObjVal(o) == [type |-> "object", num |-> 0, obj |-> o]
NoVal == [type |-> "none", num |-> 0, obj |-> NoObj]

Pending == [state |-> "pending", value |-> NoVal]
Resolved(v) == [state |-> "resolved", value |-> v]
Rejected(v) == [state |-> "rejected", value |-> v]

\* ------------------------------------------------------------- strings
IsPrefix(p, s) == Len(p) <= Len(s) /\ SubSeq(s, 1, Len(p)) = p

\* positions of s where sep occurs
Occurrences(s, sep) == { i \in 1..Len(s) : IsPrefix(sep, SubSeq(s, i, Len(s))) }
FirstOccurrence(s, sep) ==
    CHOOSE i \in Occurrences(s, sep) : \A k \in Occurrences(s, sep) : i <= k

\* String.prototype.split with a non-empty separator: the text before the
\* first occurrence, then the split of the text after it.  (The rest is
\* bound through a one-element set so that it is evaluated only once.)
RECURSIVE Split(_, _)
Split(s, sep) ==
    IF Occurrences(s, sep) = {}
    THEN << s >>
    ELSE LET i == FirstOccurrence(s, sep)
         IN  CHOOSE r \in { << SubSeq(s, 1, i - 1) >> \o Split(rest, sep) :
                               rest \in { SubSeq(s, i + Len(sep), Len(s)) } } : TRUE

\* Array.prototype.includes
Includes(set, x) == x \in set

\* where /(t|j)sx?$/ matches in cf, as a 0-based index, or -1: a suffix of cf
\* is t or j, then s, then an optional x; $ is the end of the input
MatchStart(cf) ==
    LET n == Len(cf)
    IN  IF n >= 3 /\ cf[n - 2] \in {"t", "j"} /\ cf[n - 1] = "s" /\ cf[n] = "x" THEN n - 3
        ELSE IF n >= 2 /\ cf[n - 1] \in {"t", "j"} /\ cf[n] = "s" THEN n - 2
        ELSE -1

\* RegExp.prototype.test of a pattern with the g flag: the search starts at
\* the pattern object's lastIndex
RegexTest(cf, lastIdx) == MatchStart(cf) # -1 /\ MatchStart(cf) >= lastIdx

\* ... and leaves lastIndex at the end of the match, or at 0 when it fails
LastIndexAfter(cf, lastIdx) == IF RegexTest(cf, lastIdx) THEN Len(cf) ELSE 0

\* one pattern object, shared by all the tests
PatternLastIndex_Shared(carried) == carried

\* the literal at line 85 is evaluated at each call of the predicate: each
\* test runs on a new pattern object, whose lastIndex is 0 whatever the
\* object before it was left with
PatternLastIndex(carried) == 0

\* the terminator chosen without looking at the platform
new_line_Unix(plat) == << "\n" >>

\* process.platform === 'win32' ? '\r\n' : '\n'
new_line(plat) == IF plat = "win32" THEN << "\r", "\n" >> ELSE << "\n" >>

\* the predicate without the test against ignored_files
KeepFile_NoIgnore(cf, carried) ==
    Len(cf) > 0 /\ RegexTest(cf, PatternLastIndex(carried))

\* the predicate of the filter at line 85
\* (carried is the lastIndex the pattern object of the test before was left with)
KeepFile(cf, carried) ==
    /\ Len(cf) > 0
    /\ RegexTest(cf, PatternLastIndex(carried))
    /\ ~Includes(ignored_files, cf)

\* the lastIndex of the pattern object after the predicate has run on cf;
\* cf.length && ... does not reach the test when cf is empty
CarriedAfter(cf, carried) ==
    IF Len(cf) > 0 THEN LastIndexAfter(cf, PatternLastIndex(carried)) ELSE carried

\* Array.prototype.filter with that predicate: the entries kept, in order,
\* and the lastIndex left behind by the last test
RECURSIVE FilterFiles(_, _)
FilterFiles(xs, carried) ==
    IF xs = << >> THEN [kept |-> << >>, lastIndex |-> carried]
    ELSE CHOOSE r \in
           { [kept |-> (IF KeepFile(Head(xs), carried) THEN << Head(xs) >> ELSE << >>)
                          \o rest.kept,
              lastIndex |-> rest.lastIndex] :
                rest \in { FilterFiles(Tail(xs), CarriedAfter(Head(xs), carried)) } } : TRUE

\* response.stdout.split(new_line).filter(...)
ChangedFiles(text, plat, carried) ==
    CHOOSE r \in { FilterFiles(segs, carried).kept :
                      segs \in { Split(text, new_line(plat)) } } : TRUE

\* the lastIndex of the last pattern object those tests used
PatternAfterFilter(text, plat, carried) ==
    CHOOSE r \in { FilterFiles(segs, carried).lastIndex :
                      segs \in { Split(text, new_line(plat)) } } : TRUE

\* ------------------------------------------------------------- os_run
\* log lines are records: which message, and the stderr text it carries
LogLine(m, serr) == [msg |-> m, stderr |-> serr]

\* the callback without the branch for output on stderr only
OsRunSettle_StderrIgnored(error, stdout, stderr) ==
    IF Truthy(error)
    THEN Rejected(ObjVal(Obj(FALSE, error, Undefined,
                             IF Truthy(stderr) THEN stderr ELSE Null)))
    ELSE IF Truthy(stdout)
    THEN Resolved(ObjVal(Obj(TRUE, Undefined, stdout, Undefined)))
    ELSE Resolved(ObjVal(Obj(TRUE, Undefined, Null, Undefined)))

\* the callback resolving with the empty stdout itself instead of null
OsRunSettle_EmptyStdout(error, stdout, stderr) ==
    IF Truthy(error)
    THEN Rejected(ObjVal(Obj(FALSE, error, Undefined,
                             IF Truthy(stderr) THEN stderr ELSE Null)))
    ELSE IF Truthy(stdout)
    THEN Resolved(ObjVal(Obj(TRUE, Undefined, stdout, Undefined)))
    ELSE IF Truthy(stderr)
    THEN Rejected(ObjVal(Obj(FALSE, UNKNOWN_ERROR, Undefined, stderr)))
    ELSE Resolved(ObjVal(Obj(TRUE, Undefined, stdout, Undefined)))

\* the callback without its final else: nothing settles the promise when
\* both streams are empty
OsRunSettle_NoElse(error, stdout, stderr) ==
    IF Truthy(error)
    THEN Rejected(ObjVal(Obj(FALSE, error, Undefined,
                             IF Truthy(stderr) THEN stderr ELSE Null)))
    ELSE IF Truthy(stdout)
    THEN Resolved(ObjVal(Obj(TRUE, Undefined, stdout, Undefined)))
    ELSE IF Truthy(stderr)
    THEN Rejected(ObjVal(Obj(FALSE, UNKNOWN_ERROR, Undefined, stderr)))
    ELSE Pending

\* the callback handed to exec: how the promise settles
OsRunSettle(error, stdout, stderr) ==
    IF Truthy(error)
    THEN Rejected(ObjVal(Obj(FALSE, error, Undefined,
                             IF Truthy(stderr) THEN stderr ELSE Null)))
    ELSE IF Truthy(stdout)
    THEN Resolved(ObjVal(Obj(TRUE, Undefined, stdout, Undefined)))
    ELSE IF Truthy(stderr)
    THEN Rejected(ObjVal(Obj(FALSE, UNKNOWN_ERROR, Undefined, stderr)))
    ELSE Resolved(ObjVal(Obj(TRUE, Undefined, Null, Undefined)))

\* the callback writing to the log only when exec reports an error
OsRunLog_ErrorOnly(error, stdout, stderr) ==
    IF Truthy(error)
    THEN << LogLine("failed to execute cmd", << >>),
            LogLine("failed to execute cmd",
                    IF Truthy(stderr) THEN stderr.text ELSE << >>) >>
    ELSE << >>

\* the callback handed to exec: what it writes to the log
OsRunLog(error, stdout, stderr) ==
    IF Truthy(error)
    THEN << LogLine("failed to execute cmd", << >>),
            LogLine("failed to execute cmd",
                    IF Truthy(stderr) THEN stderr.text ELSE << >>) >>
    ELSE IF Truthy(stdout)
    THEN << >>
    ELSE IF Truthy(stderr)
    THEN << LogLine("unknown error when executing cmd", stderr.text) >>
    ELSE << >>

\* ------------------------------------------------------- the entry point
\* the call of os_run without the await: the entry point goes on at once
Awaited_NoAwait(p) == TRUE

\* await os_run(...)  (line 55): the entry point goes on only when the
\* promise has settled
Awaited(p) == p.state # "pending"

\* the same test written against undefined instead of null
IsNothingToDo_Undefined(resp) == resp.success /\ resp.stdout = Undefined

\* response.success && response.stdout === null  (line 69)
IsNothingToDo(resp) == resp.success /\ resp.stdout = Null

\* response.success && response.stdout  (line 74)
HasChangeSet(resp) == resp.success /\ Truthy(resp.stdout)

\* what the lint engine hands back from lintFiles.  hasCounts tells whether
\* the value carries the four count properties; when it does not (an array
\* of per-file results) each of them reads as undefined
LintResults(has, e, w, fe, fw) ==
    [hasCounts |-> has, errorCount |-> e, warningCount |-> w,
     fixableErrorCount |-> fe, fixableWarningCount |-> fw]
NoResults == LintResults(FALSE, 0, 0, 0, 0)

\* the condition with the two warning counts left out
AllCountsZero_ErrorsOnly(r) ==
    /\ r.hasCounts
    /\ r.errorCount = 0
    /\ r.fixableErrorCount = 0

\* the condition at lines 95-100; undefined === 0 and undefined == 0 are false
AllCountsZero(r) ==
    /\ r.hasCounts
    /\ r.errorCount = 0
    /\ r.warningCount = 0
    /\ r.fixableErrorCount = 0
    /\ r.fixableWarningCount = 0

\* the argument handed to lintFiles with only the first changed file
LintArgument_First(cf) == << cf[1] >>

\* eslint.lintFiles(changed_files)  (line 91)
LintArgument(cf) == cf

\* the catch clause at lines 106-109: whatever was thrown inside the try
\* block, the entry point rejects with COMMAND_CANNOT_EXECUTE
CatchValue(thrown) == Num(COMMAND_CANNOT_EXECUTE)
CatchLog(thrown) == << LogLine("Failed to run ESLint, error: ", << >>) >>

\* lines 95-105 run inside the try block: return 0, or log and throw
\* GENERAL_ERROR, which the catch clause of the same try statement receives
VerdictOutcome(r) ==
    IF AllCountsZero(r) THEN Resolved(Num(0))
    ELSE Rejected(CatchValue(Num(GENERAL_ERROR)))
\* the report written only when there are findings
ReportLog_OnFailureOnly(r) ==
    IF AllCountsZero(r) THEN << >> ELSE << LogLine("prettyResults", << >>) >>

\* lines 92-94: console.log(formatter.format(results)), before the counts
\* are looked at
ReportLog(r) == << LogLine("prettyResults", << >>) >>

\* the line the entry point leaves at: the return at 101, or the throw of
\* the catch clause at 108
VerdictLine(r) == IF AllCountsZero(r) THEN 101 ELSE 108
VerdictLog(r) ==
    IF AllCountsZero(r) THEN << >>
    ELSE << LogLine("LINTING ERRORS", << >>) >> \o CatchLog(Num(GENERAL_ERROR))

\* ------------------------------------------------------------- inputs
Platforms == {"win32", "linux"}
LF == << "\n" >>
CRLF == << "\r", "\n" >>

Alphabet == {"a", ".", "t", "s", "x", "\n", "\r"}
ShortTexts == UNION { [1..k -> Alphabet] : k \in 0..MaxLen }

Names ==
    { <<"a", ".", "t", "s">>,
      <<"b", ".", "j", "s">>,
      <<"s", "r", "c", "/", "a", ".", "t", "s", "x">>,
      <<"R", "E", "A", "D", "M", "E", ".", "m", "d">>,
      <<"d", "o", "c", "s", "/", "p", "a", "r", "t", "s">>,
      <<"s", "c", "r", "i", "p", "t", "s", "/", "p", "r", "e", "-",
        "c", "o", "m", "m", "i", "t", ".", "j", "s">> }

RECURSIVE Join(_, _)
Join(xs, sep) ==
    IF xs = << >> THEN << >>
    ELSE IF Len(xs) = 1 THEN xs[1]
    ELSE xs[1] \o sep \o Join(Tail(xs), sep)

PathLists == UNION { [1..k -> Names] : k \in 0..MaxPaths }
Listings ==
    { Join(l, t) \o e : l \in PathLists, t \in {LF, CRLF}, e \in {<< >>, LF, CRLF} }

\* what exec can hand to its callback
ExecErrors == {Null, ErrorObject}
StdoutTexts == ShortTexts \cup Listings
StderrTexts == { << >>, << "w", "a", "r", "n" >> }

Counts == 0..MaxCount
LintOutputs ==
    { LintResults(TRUE, e, w, fe, fw) : e \in Counts, w \in Counts, fe \in Counts, fw \in Counts }
      \cup { NoResults }

\* ------------------------------------------------------------- state
VARIABLES
    platform,       \* process.platform
    pc,             \* where the entry point stands
    execResult,     \* the (error, stdout, stderr) exec gave its callback
    promise,        \* the promise os_run returned
    response,       \* the local variable response
    changed_files,  \* the local variable changed_files
    results,        \* the local variable results
    lintState,      \* what the lint engine did: "none", "completed", "threw"
    log,            \* what console.log has written in this invocation, in order
    outcome,        \* the promise the entry point returned
    gitCalls,       \* how often exec was called
    lintCalls,      \* the arguments of the calls of lintFiles, in order
    engine,         \* what each call into the lint engine did, see NoEngine
    exitLine,       \* the source line the entry point left at, 0 while running
    lastIndex,      \* lastIndex of the pattern object the filter used last
    run,            \* which invocation of the entry point this is
    prev            \* what the invocation before this one was given and returned

vars == << platform, pc, execResult, promise, response, changed_files, results,
           lintState, log, outcome, gitCalls, lintCalls, engine, exitLine,
           lastIndex, run, prev >>

\* new ESLint(), eslint.lintFiles and eslint.loadFormatter/format: each is
\* "none" (not called), "ok" (returned or resolved) or "threw"
NoEngine == [ctor |-> "none", lintFiles |-> "none", formatter |-> "none"]

NoExec == [done |-> FALSE, error |-> Null, stdout |-> Str(<< >>), stderr |-> Str(<< >>)]

\* before the first invocation has ended there is no earlier one
NoPrev == [valid |-> FALSE, execResult |-> NoExec, engine |-> NoEngine,
           results |-> NoResults, outcome |-> Pending, exitLine |-> 0]

Init ==
    /\ platform \in Platforms
    /\ pc = "start"
    /\ execResult = NoExec
    /\ promise = Pending
    /\ response = NoObj
    /\ changed_files = << >>
    /\ results = NoResults
    /\ lintState = "none"
    /\ log = << >>
    /\ outcome = Pending
    /\ gitCalls = 0
    /\ lintCalls = << >>
    /\ engine = NoEngine
    /\ exitLine = 0
    /\ lastIndex = 0
    /\ run = 1
    /\ prev = NoPrev

\* ------------------------------------------------------------- actions
\* line 55, first half: the entry point calls os_run, which calls exec and
\* returns a pending promise; the entry point is suspended on it
CallOsRun ==
    /\ pc = "start"
    /\ gitCalls' = gitCalls + 1
    /\ promise' = Pending
    /\ pc' = "await_git"
    /\ UNCHANGED << platform, execResult, response, changed_files, results,
                    lintState, log, outcome, lintCalls, engine, exitLine,
                    lastIndex, run, prev >>

\* lines 22-45: the callback of exec, called with (error, stdout, stderr)
ExecCallbackWith(error, stdout, stderr) ==
    /\ promise.state = "pending"
    /\ execResult' = [done |-> TRUE, error |-> error, stdout |-> stdout, stderr |-> stderr]
    /\ promise' = OsRunSettle(error, stdout, stderr)
    /\ log' = log \o OsRunLog(error, stdout, stderr)
    /\ pc' = "git_settled"
    /\ UNCHANGED << platform, response, changed_files, results, lintState,
                    outcome, gitCalls, lintCalls, engine, exitLine,
                    lastIndex, run, prev >>

\* exec calls back with whatever git did
ExecCallback ==
    /\ pc = "await_git"
    /\ \E error \in ExecErrors, so \in StdoutTexts, se \in StderrTexts :
          ExecCallbackWith(error, Str(so), Str(se))

\* lines 55-91 and 110-120: the entry point resumes when the promise of
\* os_run has settled and runs up to its next await (or to its end)
ResumeAfterGit ==
    /\ pc \in {"await_git", "git_settled"}
    /\ Awaited(promise)
    /\ \E ctorThrows \in BOOLEAN :
        IF promise.state = "rejected"
        THEN \* await rethrows the rejection value; nothing catches it
             /\ outcome' = Rejected(promise.value)
             /\ pc' = "done"
             /\ exitLine' = 55
             /\ UNCHANGED << response, changed_files, lintState, log, lintCalls,
                             engine, lastIndex >>
        ELSE LET resp == promise.value.obj
                 cf == ChangedFiles(resp.stdout.text, platform, lastIndex)
             IN  /\ response' = resp
                 /\ IF Truthy(resp.error)
                    THEN /\ outcome' = Rejected(Num(IF resp.error = UNKNOWN_ERROR
                                                    THEN GENERAL_ERROR
                                                    ELSE COMMAND_CANNOT_EXECUTE))
                         /\ pc' = "done"
                         /\ exitLine' = (IF resp.error = UNKNOWN_ERROR THEN 60 ELSE 62)
                         /\ UNCHANGED << changed_files, lintState, log, lintCalls,
                                         engine, lastIndex >>
                    ELSE IF IsNothingToDo(resp)
                    THEN /\ outcome' = Resolved(Num(0))
                         /\ pc' = "done"
                         /\ exitLine' = 70
                         /\ UNCHANGED << changed_files, lintState, log, lintCalls,
                                         engine, lastIndex >>
                    ELSE IF HasChangeSet(resp)
                    THEN /\ changed_files' = cf
                         /\ lastIndex' = PatternAfterFilter(resp.stdout.text, platform, lastIndex)
                         /\ IF Len(cf) > 0
                            THEN IF ctorThrows
                                 THEN \* new ESLint() throws inside the try block
                                      /\ engine' = [engine EXCEPT !.ctor = "threw"]
                                      /\ lintState' = "threw"
                                      /\ log' = log \o CatchLog(NoVal)
                                      /\ outcome' = Rejected(CatchValue(NoVal))
                                      /\ pc' = "done"
                                      /\ exitLine' = 108
                                      /\ UNCHANGED lintCalls
                                 ELSE /\ engine' = [engine EXCEPT !.ctor = "ok"]
                                      /\ lintCalls' = Append(lintCalls, LintArgument(cf))
                                      /\ pc' = "await_lintFiles"
                                      /\ UNCHANGED << lintState, log, outcome, exitLine >>
                            ELSE /\ outcome' = Resolved(Num(0))
                                 /\ pc' = "done"
                                 /\ exitLine' = 111
                                 /\ UNCHANGED << lintState, log, lintCalls, engine >>
                    ELSE /\ outcome' = Rejected(Num(GENERAL_ERROR))
                         /\ pc' = "done"
                         /\ exitLine' = 120
                         /\ UNCHANGED << changed_files, lintState, log, lintCalls,
                                         engine, lastIndex >>
    /\ UNCHANGED << platform, execResult, promise, results, gitCalls, run, prev >>

\* lines 91-92: lintFiles settles; on success the entry point asks for the
\* formatter, on failure the catch clause runs
LintFilesSettles ==
    /\ pc = "await_lintFiles"
    /\ \/ \E r \in LintOutputs :
            /\ results' = r
            /\ engine' = [engine EXCEPT !.lintFiles = "ok"]
            /\ lintState' = "linted"
            /\ pc' = "await_loadFormatter"
            /\ UNCHANGED << log, outcome, exitLine >>
       \/ /\ engine' = [engine EXCEPT !.lintFiles = "threw"]
          /\ lintState' = "threw"
          /\ log' = log \o CatchLog(NoVal)
          /\ outcome' = Rejected(CatchValue(NoVal))
          /\ pc' = "done"
          /\ exitLine' = 108
          /\ UNCHANGED results
    /\ UNCHANGED << platform, execResult, promise, response, changed_files,
                    gitCalls, lintCalls, lastIndex, run, prev >>

\* lines 92-109: loadFormatter settles; the report is formatted and logged
\* and the counts decide; a failure of loadFormatter or of format is caught
ReportAndDecide ==
    /\ pc = "await_loadFormatter"
    /\ \E formatterFails \in BOOLEAN :
        IF formatterFails
        THEN /\ engine' = [engine EXCEPT !.formatter = "threw"]
             /\ lintState' = "threw"
             /\ log' = log \o CatchLog(NoVal)
             /\ outcome' = Rejected(CatchValue(NoVal))
             /\ exitLine' = 108
        ELSE /\ engine' = [engine EXCEPT !.formatter = "ok"]
             /\ lintState' = "completed"
             /\ log' = log \o ReportLog(results) \o VerdictLog(results)
             /\ outcome' = VerdictOutcome(results)
             /\ exitLine' = VerdictLine(results)
    /\ pc' = "done"
    /\ UNCHANGED << platform, execResult, promise, response, changed_files,
                    results, gitCalls, lintCalls, lastIndex, run, prev >>

Next ==
    \/ CallOsRun
    \/ ExecCallback
    \/ ResumeAfterGit
    \/ LintFilesSettles
    \/ ReportAndDecide

Spec == Init /\ [][Next]_vars

\* exec calls back, the awaited engine calls settle, and the event loop runs
\* every continuation that is ready
FairSpec ==
    /\ Spec
    /\ WF_vars(CallOsRun)
    /\ WF_vars(ExecCallback)
    /\ WF_vars(ResumeAfterGit)
    /\ WF_vars(LintFilesSettles)
    /\ WF_vars(ReportAndDecide)

\* the caller calls the entry point again after the invocation before has
\* ended: every local of lines 52-121 starts afresh; the process (its
\* platform, and whatever object outlives a call) stays
Reinvoke ==
    /\ pc = "done"
    /\ run < MaxRuns
    /\ prev' = [valid |-> TRUE, execResult |-> execResult, engine |-> engine,
                results |-> results, outcome |-> outcome, exitLine |-> exitLine]
    /\ run' = run + 1
    /\ pc' = "start"
    /\ execResult' = NoExec
    /\ promise' = Pending
    /\ response' = NoObj
    /\ changed_files' = << >>
    /\ results' = NoResults
    /\ lintState' = "none"
    /\ log' = << >>
    /\ outcome' = Pending
    /\ gitCalls' = 0
    /\ lintCalls' = << >>
    /\ engine' = NoEngine
    /\ exitLine' = 0
    /\ UNCHANGED << platform, lastIndex >>

\* the calls into the lint engine, by the field of engine that records them
EngineCalls == {"ctor", "lintFiles", "formatter"}

\* whatever git and the lint engine have done so far in this invocation is
\* what they did in the invocation before, where both invocations asked
SameInputsAsBefore ==
    /\ execResult.done => execResult = prev.execResult
    /\ \A c \in EngineCalls :
          (engine[c] # "none" /\ prev.engine[c] # "none") => engine[c] = prev.engine[c]
    /\ (engine.lintFiles = "ok" /\ prev.engine.lintFiles = "ok") => results = prev.results

\* in the first invocation exec calls back with a listing of paths (or with
\* none), with or without an error and with or without text on stderr
ExecCallbackFirst ==
    /\ pc = "await_git"
    /\ ~prev.valid
    /\ \E error \in ExecErrors, so \in Listings, se \in StderrTexts :
          ExecCallbackWith(error, Str(so), Str(se))

\* in a later one exec calls back with what git did in the invocation before
ExecCallbackAgain ==
    /\ pc = "await_git"
    /\ prev.valid
    /\ ExecCallbackWith(prev.execResult.error, prev.execResult.stdout, prev.execResult.stderr)

\* the reports the lint engine gives in the replayed runs: none, a clean
\* one, and one for each number of errors
ReplayLintOutputs ==
    { NoResults } \cup { LintResults(TRUE, e, 0, 0, 0) : e \in Counts }

\* the lint engine gives one of those reports, and in a later invocation it
\* does what it did in the invocation before
ReplayEnvironment ==
    /\ results \in ReplayLintOutputs
    /\ prev.valid => SameInputsAsBefore

\* the repository and the lint engine do not change between two invocations
NextReplay ==
    \/ CallOsRun
    \/ ExecCallbackFirst
    \/ ExecCallbackAgain
    \/ ResumeAfterGit /\ ReplayEnvironment'
    \/ LintFilesSettles /\ ReplayEnvironment'
    \/ ReportAndDecide /\ ReplayEnvironment'
    \/ Reinvoke

SpecReplay == Init /\ [][NextReplay]_vars

\* ------------------------------------------------------------- vocabulary
\* the words the properties below are stated in
ReservedPath ==
    <<"s", "c", "r", "i", "p", "t", "s", "/", "p", "r", "e", "-",
      "c", "o", "m", "m", "i", "t", ".", "j", "s">>

IsSuffix(p, s) == Len(p) <= Len(s) /\ SubSeq(s, Len(s) - Len(p) + 1, Len(s)) = p

SourceExtensions ==
    { <<".", "j", "s">>, <<".", "j", "s", "x">>, <<".", "t", "s">>, <<".", "t", "s", "x">> }
HasSourceExtension(seg) == \E ext \in SourceExtensions : IsSuffix(ext, seg)

\* the host's line terminator
HostTerminator == IF platform = "win32" THEN CRLF ELSE LF

Finished == pc = "done"
GitFailed == execResult.done /\ promise.state = "rejected"
ResolverYieldsNull ==
    /\ execResult.done
    /\ execResult.error = Null
    /\ execResult.stdout = Str(<< >>)
    /\ execResult.stderr = Str(<< >>)
\* the filter step has run on a non-null raw output
Filtered == response.success /\ Truthy(response.stdout)
RawOutput == execResult.stdout.text
\* the non-empty segments of the raw output
IsNonEmpty(seg) == seg # << >>
Segments == SelectSeq(Split(RawOutput, HostTerminator), IsNonEmpty)
LintInvoked == lintCalls # << >>
HasFindings(r) ==
    \/ r.errorCount # 0
    \/ r.warningCount # 0
    \/ r.fixableErrorCount # 0
    \/ r.fixableWarningCount # 0
\* every path that was handed to the lint engine
LintedPaths ==
    UNION { { lintCalls[i][j] : j \in 1..Len(lintCalls[i]) } : i \in 1..Len(lintCalls) }

\* ------------------------------------------------------------- properties

\* C1: every run ends in one of exactly three outcomes: it resolves to 0,
\* rejects with 1 (GENERAL_ERROR) or rejects with 126
\* (COMMAND_CANNOT_EXECUTE); it never rejects with any other value.
C1_OutcomeIsOneOfThree ==
    Finished =>
        \/ outcome = Resolved(Num(0))
        \/ outcome = Rejected(Num(1))
        \/ outcome = Rejected(Num(126))

\* C2: when the lint engine completes with a findings aggregate, the outcome
\* is success (0) if all four counts are zero, and GENERAL_ERROR (1) if at
\* least one of them is nonzero.
C2_CountsDecideOutcome ==
    (Finished /\ lintState = "completed" /\ results.hasCounts) =>
        IF HasFindings(results)
        THEN outcome = Rejected(Num(1))
        ELSE outcome = Resolved(Num(0))

\* C3: when the git command fails, the outcome is GENERAL_ERROR (1) if the
\* resolver signalled UNKNOWN_ERROR and COMMAND_CANNOT_EXECUTE (126) if it
\* signalled any other failure.
C3_GitFailureIsClassified ==
    (Finished /\ GitFailed) =>
        IF promise.value.obj.error = UNKNOWN_ERROR
        THEN outcome = Rejected(Num(1))
        ELSE outcome = Rejected(Num(126))

\* C4: a run in which the lint engine throws ends with
\* COMMAND_CANNOT_EXECUTE (126), and a run in which the engine completes
\* with a nonzero finding count ends with a failure code other than that.
C4_EngineFailureIsDistinct ==
    Finished =>
        /\ lintState = "threw" => outcome = Rejected(Num(126))
        /\ (lintState = "completed" /\ results.hasCounts /\ HasFindings(results)) =>
              /\ outcome.state = "rejected"
              /\ outcome.value # Num(126)

\* C5: whenever the resolver yields null output (no error, empty stdout,
\* empty stderr) the lint engine is never invoked and the run, once
\* finished, has resolved to 0.
C5_NullOutputSucceeds ==
    ResolverYieldsNull =>
        /\ ~LintInvoked
        /\ lintState = "none"
        /\ pc \in {"git_settled", "done"}
        /\ Finished => outcome = Resolved(Num(0))

C5_Witness ==
    Finished /\ ResolverYieldsNull /\ response.stdout = Null /\ outcome = Resolved(Num(0))

\* C6: for every non-null raw output whose paths all lack a source-file
\* extension or equal the reserved path, the filtered list is empty, the
\* lint engine is never invoked and the run resolves to 0.
C6_NothingToLintSucceeds ==
    (Filtered /\ \A i \in 1..Len(Segments) :
                    ~HasSourceExtension(Segments[i]) \/ Segments[i] = ReservedPath) =>
        /\ changed_files = << >>
        /\ ~LintInvoked
        /\ Finished
        /\ outcome = Resolved(Num(0))

\* C7: no silent success: a run resolves only to 0, and only when the
\* resolver yielded null, or the filtered list was empty, or the lint engine
\* was invoked, completed without throwing and reported four zero counts;
\* never after a failed git command, a thrown engine or a nonzero count.
C7_NoSilentSuccess ==
    outcome.state = "resolved" =>
        /\ outcome.value = Num(0)
        /\ execResult.done /\ execResult.error = Null /\ ~GitFailed
        /\ lintState # "threw"
        /\ \/ ResolverYieldsNull /\ ~LintInvoked
           \/ Filtered /\ changed_files = << >> /\ ~LintInvoked
           \/ /\ Filtered /\ Len(lintCalls) = 1
              /\ lintState = "completed"
              /\ results.hasCounts
              /\ ~HasFindings(results)

C7_Witness ==
    /\ outcome = Resolved(Num(0))
    /\ Len(lintCalls) = 1
    /\ lintState = "completed"
    /\ results.hasCounts /\ ~HasFindings(results)

\* C8: the filtered list is the order-preserving subsequence of the
\* non-empty segments of the raw output that end in .js, .jsx, .ts or .tsx
\* and are not the reserved path; no other segment is retained.
IsLintable(seg) == HasSourceExtension(seg) /\ seg # ReservedPath
C8_FilterKeepsExactlySourceFiles ==
    Filtered => changed_files = SelectSeq(Segments, IsLintable)

\* C9: on either platform and for every raw output, the literal path
\* scripts/pre-commit.js is never among the paths handed to the lint engine.
C9_ReservedPathNeverLinted == ReservedPath \notin LintedPaths

C9_Witness ==
    /\ \E i \in 1..Len(Segments) : Segments[i] = ReservedPath
    /\ HasSourceExtension(ReservedPath)
    /\ LintInvoked
    /\ lintState = "completed"

\* C10: on each platform the filtered list of a text that ends with the
\* host's terminator equals the filtered list of the same text without that
\* terminator, and the filtered list never contains an empty string.
WithoutTrailingTerminator(text) == SubSeq(text, 1, Len(text) - Len(HostTerminator))
C10_TrailingTerminatorInsensitive ==
    Filtered =>
        /\ \A i \in 1..Len(changed_files) : changed_files[i] # << >>
        /\ IsSuffix(HostTerminator, RawOutput) =>
              changed_files = ChangedFiles(WithoutTrailingTerminator(RawOutput), platform, 0)

C10_Witness ==
    /\ Filtered
    /\ platform = "linux"
    /\ RawOutput = <<"a", ".", "t", "s", "\n", "b", ".", "j", "s", "\n">>
    /\ changed_files = << <<"a", ".", "t", "s">>, <<"b", ".", "j", "s">> >>
    /\ LintInvoked

\* C11: whenever the filtered list is non-empty the lint engine is invoked
\* exactly once, with exactly the filtered list as its argument; the git
\* command is invoked exactly once per run; neither call is retried.
C11_LintedExactlyOnce ==
    /\ gitCalls <= 1
    /\ pc # "start" => gitCalls = 1
    /\ Len(lintCalls) <= 1
    /\ (Filtered /\ changed_files # << >>) => lintCalls = << changed_files >>

\* C11 as amended: the same, but lintFiles is called only when new ESLint()
\* has returned; when the constructor throws, lintFiles is never called.
C11_LintedOnceIfConstructed ==
    /\ gitCalls <= 1
    /\ pc # "start" => gitCalls = 1
    /\ Len(lintCalls) <= 1
    /\ (Filtered /\ changed_files # << >>) =>
          /\ engine.ctor \in {"ok", "threw"}
          /\ engine.ctor = "ok" => lintCalls = << changed_files >>
          /\ engine.ctor = "threw" => lintCalls = << >>
    /\ LintInvoked => Filtered /\ changed_files # << >>

C11_Witness ==
    /\ Finished
    /\ gitCalls = 1
    /\ Len(changed_files) = 2
    /\ lintCalls = << changed_files >>
    /\ engine.lintFiles = "threw"

\* C12: on every failure path at least one diagnostic message is in the log
\* by the time the failure is propagated, and a failed git command's stderr
\* text is part of it; no run ends in failure with nothing logged.
LogCarries(text) == \E i \in 1..Len(log) : log[i].stderr = text
C12_FailuresAreLogged ==
    /\ promise.state = "rejected" => log # << >>
    /\ outcome.state = "rejected" => log # << >>
    /\ (GitFailed /\ Truthy(execResult.stderr)) => LogCarries(execResult.stderr.text)

C12_Witness ==
    /\ Finished
    /\ outcome.state = "rejected"
    /\ GitFailed
    /\ execResult.error = Null
    /\ Truthy(execResult.stderr)
    /\ LogCarries(execResult.stderr.text)

\* C13: every completion of the git command without an exec error and with
\* non-empty stderr makes the resolver signal UNKNOWN_ERROR, whatever was
\* written to stdout.
SignalsUnknownError ==
    /\ promise.state = "rejected"
    /\ promise.value.obj.error = UNKNOWN_ERROR
    /\ promise.value.obj.stderr = execResult.stderr
StderrWithoutError ==
    execResult.done /\ execResult.error = Null /\ Truthy(execResult.stderr)
C13_StderrMeansUnknownError == StderrWithoutError => SignalsUnknownError

\* C13 as amended: the resolver signals UNKNOWN_ERROR when stdout is empty;
\* when stdout is non-empty it resolves with that stdout and drops stderr.
C13_StderrOnlyMeansUnknownError ==
    StderrWithoutError =>
        IF Truthy(execResult.stdout)
        THEN promise = Resolved(ObjVal(Obj(TRUE, Undefined, execResult.stdout, Undefined)))
        ELSE SignalsUnknownError

C13_Witness ==
    /\ StderrWithoutError
    /\ ~Truthy(execResult.stdout)
    /\ SignalsUnknownError
    /\ Finished

\* C14: in every run with a non-empty filtered list the formatted report is
\* in the log when the run has finished, whatever the lint outcome is (zero
\* findings, nonzero findings or engine failure).
ReportLogged == \E i \in 1..Len(log) : log[i].msg = "prettyResults"
C14_ReportAlwaysLogged ==
    (Finished /\ Filtered /\ changed_files # << >>) => ReportLogged

\* C14 as amended: the report is in the log of every finished run in which
\* lintFiles, loadFormatter and format returned, with or without findings,
\* and ahead of the verdict lines; in no other run is a report logged.
C14_ReportLoggedWhenEngineCompletes ==
    /\ (Finished /\ engine.formatter = "ok") =>
          /\ ReportLogged
          /\ log[1].msg = "prettyResults"
    /\ ReportLogged => engine = [ctor |-> "ok", lintFiles |-> "ok", formatter |-> "ok"]
    /\ (Finished /\ engine.formatter # "ok") => ~ReportLogged

C14_Witness ==
    /\ Finished
    /\ ReportLogged
    /\ results.hasCounts /\ ~HasFindings(results)
    /\ outcome = Resolved(Num(0))

\* C15: at most one external operation is outstanding at any time; the lint
\* engine is started only after the git callback has delivered and the
\* filter has run; the events of a run come in the order resolve, filter,
\* lint, report, exit.
GitOutstanding == gitCalls > 0 /\ ~execResult.done
LintOutstanding ==
    \/ lintCalls # << >> /\ engine.lintFiles = "none"
    \/ engine.lintFiles = "ok" /\ engine.formatter = "none"
C15_OneOperationAtATime ==
    /\ ~(GitOutstanding /\ LintOutstanding)
    /\ Filtered => execResult.done /\ promise.state = "resolved"
    /\ engine.ctor # "none" => Filtered /\ changed_files # << >>
    /\ LintInvoked => engine.ctor = "ok"
    /\ engine.formatter # "none" => engine.lintFiles = "ok"
    /\ ReportLogged => engine.formatter = "ok"
    /\ outcome.state # "pending" <=> Finished
    /\ Finished => execResult.done /\ ~GitOutstanding /\ ~LintOutstanding

C15_Witness ==
    /\ LintOutstanding
    /\ engine.lintFiles = "ok"
    /\ ~GitOutstanding
    /\ Filtered
    /\ ~Finished

\* C16: the defensive branches are unreachable: a value os_run resolves with
\* has no error field and is {success, stdout: null} or {success, stdout:
\* non-empty text}, so the entry point never leaves through lines 60, 62
\* or 120.
DefensiveLines == {60, 62, 120}
C16_DefensiveBranchesUnreachable ==
    /\ exitLine \notin DefensiveLines
    /\ promise.state = "resolved" =>
          /\ promise.value.type = "object"
          /\ promise.value.obj.error = Undefined
          /\ promise.value.obj.success
          /\ promise.value.obj.stdout = Null \/ Truthy(promise.value.obj.stdout)

C16_Witness ==
    /\ Finished
    /\ promise.state = "resolved"
    /\ promise.value.obj.stdout = Null
    /\ exitLine = 70

\* C17: every run terminates: it reaches a terminal state, with the outcome
\* settled, and takes no step after it; the promise of os_run is settled by
\* the callback, and once settled it never changes.
C17_RunTerminatesOnce ==
    /\ <>Finished
    /\ [][pc # "done"]_vars
    /\ [](Finished => outcome.state \in {"resolved", "rejected"})
    /\ [][outcome.state # "pending" => outcome' = outcome]_vars
    /\ [](execResult.done => promise.state \in {"resolved", "rejected"})
    /\ [][promise.state # "pending" => promise' = promise]_vars

C17_Witness ==
    /\ Finished
    /\ promise.state = "resolved"
    /\ engine.formatter = "ok"
    /\ outcome.state = "rejected"

\* C18: the run is stateless and deterministic.  Each entry of the listing is
\* kept or dropped as it would be if it were tested alone, whatever entry was
\* tested before it; and an invocation that is given the platform, the git
\* result and the lint engine results of the invocation before it ends as
\* that one did, with the same outcome at the same line.
KeptAlone(seg) == KeepFile(seg, 0)
Replayed == prev.valid /\ execResult.done /\ SameInputsAsBefore
C18_SameInputsSameOutcome ==
    /\ Filtered => changed_files = SelectSeq(Split(RawOutput, new_line(platform)), KeptAlone)
    /\ (Finished /\ Replayed) => (outcome = prev.outcome /\ exitLine = prev.exitLine)

C18_Witness ==
    /\ Finished
    /\ Replayed
    /\ Len(changed_files) = 2
    /\ prev.engine.formatter = "ok"
    /\ outcome = Rejected(Num(COMMAND_CANNOT_EXECUTE))

====
